---- MODULE Spec2Model ----
(***************************************************************************)
(* Model of the room-scoped file relay (the socket.io server with burn     *)
(* policies): rooms registry, burn tracker maps, per-connection closure    *)
(* state (currentRoom / currentUser), in-flight provider uploads, deferred *)
(* burn timers and the periodic expiry sweep.                              *)
(***************************************************************************)
EXTENDS Integers, Sequences, FiniteSets, TLC

\* ---------------------------------------------------------------- bounds
MaxUploads == 1
MaxTicks == 1
MaxJoins == 2
MaxReports == 2

\* ------------------------------------------------------ program constants
MaxFiles == 100
HourMs == 3600000
NoExpiry == 0

Sessions == {"s1", "s2"}
Codes == {"K1", "K2"}
Null == "null"
Usernames == {"", "ann"}
\* upload-file payloads: undecodable data, an unregistered provider, or a
\* decodable blob for a registered provider (one that declares an expiry, one
\* that does not) with each kind of burn policy
UploadInputs ==
  {[dataOk |-> FALSE, provider |-> "catbox", burn |-> [type |-> "none", downloads |-> 0, minutes |-> 0]],
   [dataOk |-> TRUE, provider |-> "bogus", burn |-> [type |-> "none", downloads |-> 0, minutes |-> 0]],
   [dataOk |-> TRUE, provider |-> "hasOwnProperty", burn |-> [type |-> "none", downloads |-> 0, minutes |-> 0]],
   [dataOk |-> TRUE, provider |-> "toString", burn |-> [type |-> "none", downloads |-> 0, minutes |-> 0]]}
  \cup [dataOk : {TRUE}, provider : {"litterbox", "catbox"},
        burn : {[type |-> "none", downloads |-> 0, minutes |-> 0],
                [type |-> "downloads", downloads |-> 2, minutes |-> 0],
                [type |-> "time", downloads |-> 0, minutes |-> 60]}]
StartTime == HourMs


VARIABLES
  rooms,            \* code -> [users : key set of the users Map, files : Seq(file)]
  fileDownloads,    \* file id -> download count
  fileFirstAccess,  \* file id -> time of first access
  currentRoom,      \* per connection: bound room code or Null
  currentUser,      \* per connection: username or Null
  connected,        \* per connection: socket still connected
  joined,           \* per connection: socket.io rooms the socket is in
  uploads,          \* upload-file handlers suspended in the provider call
  timers,           \* armed setTimeout callbacks
  now,              \* Date.now()
  nextId,           \* issuance number of the next generateId()
  nUploads,         \* store calls started so far
  nJoins,           \* rooms created or joined so far
  reports,          \* history: file id -> access reports counted
  burned,           \* history: file id -> number of file-burned broadcasts
  firstReportAt,    \* history: file id -> time of the first counted report
  burnedAt,         \* history: file id -> time of the (last) burn
  timerFired,       \* history: file ids whose deferred check has fired
  emptied,          \* history: file ids in a manifest when its room emptied
  stale,            \* history: file ids named by a burn trigger while in no manifest
  policy,           \* history: file id -> the burn policy it was shared with
  sharedIn,         \* history: file id -> the room its file-shared was broadcast to
  sharedTo,         \* history: file id -> the sessions that received its file-shared
  listedTo,         \* history: file id -> the sessions that received it in a room-joined
  swept,            \* history: file ids the expiry sweep removed
  ignored,          \* history: ids of files without a policy that a report named
  foreign,          \* history: ids of files a report named from another room than theirs
  armed,            \* history: file id -> number of deferred checks armed for it
  evicted           \* history: file ids shifted out of a full manifest

vars == <<rooms, fileDownloads, fileFirstAccess, currentRoom, currentUser,
          connected, joined, uploads, timers, now, nextId, nUploads, nJoins,
          reports, burned, firstReportAt, burnedAt, timerFired, emptied, stale, policy,
          sharedIn, sharedTo, listedTo, swept, ignored, foreign, armed, evicted>>

hvars == <<reports, burned, firstReportAt, burnedAt, timerFired, emptied, stale, policy,
           sharedIn, sharedTo, listedTo, swept, ignored, foreign, armed, evicted>>

\* ------------------------------------------------------------- Map helpers
MapSet(m, k, v) == [x \in DOMAIN m \cup {k} |-> IF x = k THEN v ELSE m[x]]
MapDel(m, k) == [x \in DOMAIN m \ {k} |-> m[x]]
MapDelAll(m, ks) == [x \in DOMAIN m \ ks |-> m[x]]
MapGetOr0(m, k) == IF k \in DOMAIN m THEN m[k] ELSE 0
EmptyMap == [x \in {} |-> 0]
\* variant: null passes for a value
Truthy_null(x) == x # ""

Truthy(x) == x \notin {Null, ""}

FileIds(files) == {files[i].id : i \in 1..Len(files)}
\* variant: the file is looked for in every room's manifest
HasFile_anywhere(rs, code, fileId) ==
  code \in DOMAIN rs /\ fileId \in UNION {FileIds(rs[c].files) : c \in DOMAIN rs}

HasFile(rs, code, fileId) == code \in DOMAIN rs /\ fileId \in FileIds(rs[code].files)
FindFile(files, fileId) == CHOOSE f \in {files[i] : i \in 1..Len(files)} : f.id = fileId
AllFileIds(rs) == UNION {FileIds(rs[c].files) : c \in DOMAIN rs}

\* ---------------------------------------------------------------- messages
Msg(ev, to, room, fileId, files, n) ==
  [ev |-> ev, to |-> to, room |-> room, fileId |-> fileId, files |-> files, n |-> n]
\* io.to(room): every connected socket that joined the socket.io room
InRoom(jn, conn, room) == {s \in Sessions : conn[s] /\ room \in jn[s]}
\* socket.emit: only a connected socket receives
Self(conn, s) == IF conn[s] THEN {s} ELSE {}

\* the part of the state the burn functions read and write
World == [rooms |-> rooms, fd |-> fileDownloads, ffa |-> fileFirstAccess,
          out |-> <<>>, burns |-> <<>>, gone |-> {}]

\* ---------------------------------------------------------------- providers
\* result.expiresAt of uploadProviders[provider], 0 for null
ProviderExpiresAt(provider, t) ==
  IF provider = "litterbox" THEN t + 1 * HourMs
  ELSE IF provider = "tmpfiles" THEN t + HourMs
  ELSE IF provider = "gofile" THEN t + 10 * 24 * HourMs
  ELSE NoExpiry

\* the adapters uploadProviders defines
RegisteredProviders == {"litterbox", "catbox", "gofile", "tmpfiles"}

\* uploadProviders is an object literal, so uploadProviders[provider] also
\* finds the members inherited from Object.prototype. Called as uploadFn(...),
\* without a receiver, toString returns "[object Undefined]" and constructor
\* returns its first argument; the other members throw a TypeError
InheritedReturning == {"toString", "constructor"}

InheritedThrowing == {"hasOwnProperty", "isPrototypeOf", "propertyIsEnumerable",
                      "toLocaleString", "valueOf", "__proto__"}

\* const uploadFn = uploadProviders[provider]; if (!uploadFn) throw ...
KnownProvider(provider) ==
  provider \in RegisteredProviders \cup InheritedReturning \cup InheritedThrowing

\* ------------------------------------------------------------------ burning
burnFile(w, fileId, roomCode) ==
  IF roomCode \notin DOMAIN w.rooms THEN w
  ELSE [w EXCEPT
         !.rooms[roomCode].files = SelectSeq(@, LAMBDA f : f.id # fileId),
         !.fd = MapDel(@, fileId),
         !.ffa = MapDel(@, fileId),
         !.out = Append(@, Msg("file-burned", InRoom(joined, connected, roomCode),
                               roomCode, fileId, <<>>, 0)),
         !.burns = Append(@, fileId)]

\* variant: the download threshold compared with > instead of >=
checkBurnConditions_strict(w, fileId, roomCode, t) ==
  IF roomCode \notin DOMAIN w.rooms THEN w
  ELSE IF ~HasFile(w.rooms, roomCode, fileId) THEN w
  ELSE LET file == FindFile(w.rooms[roomCode].files, fileId) IN
    IF file.burn.type = "none" THEN w
    ELSE IF file.burn.type = "downloads" THEN
      IF MapGetOr0(w.fd, fileId) > file.burn.downloads
        THEN burnFile(w, fileId, roomCode) ELSE w
    ELSE IF file.burn.type = "time" THEN
      IF fileId \in DOMAIN w.ffa /\ w.ffa[fileId] # 0
        THEN IF t >= w.ffa[fileId] + file.burn.minutes * 60 * 1000
               THEN burnFile(w, fileId, roomCode) ELSE w
        ELSE w
    ELSE w

\* variant: no lookup of the file in the manifest before burning
checkBurnConditions_nofind(w, fileId, roomCode, t) ==
  IF roomCode \notin DOMAIN w.rooms THEN w
  ELSE IF ~HasFile(w.rooms, roomCode, fileId) THEN burnFile(w, fileId, roomCode)
  ELSE LET file == FindFile(w.rooms[roomCode].files, fileId) IN
    IF file.burn.type = "none" THEN w
    ELSE IF file.burn.type = "downloads" THEN
      IF MapGetOr0(w.fd, fileId) >= file.burn.downloads
        THEN burnFile(w, fileId, roomCode) ELSE w
    ELSE IF file.burn.type = "time" THEN
      IF fileId \in DOMAIN w.ffa /\ w.ffa[fileId] # 0
        THEN IF t >= w.ffa[fileId] + file.burn.minutes * 60 * 1000
               THEN burnFile(w, fileId, roomCode) ELSE w
        ELSE w
    ELSE w

checkBurnConditions(w, fileId, roomCode, t) ==
  IF roomCode \notin DOMAIN w.rooms THEN w
  ELSE IF ~HasFile(w.rooms, roomCode, fileId) THEN w
  ELSE LET file == FindFile(w.rooms[roomCode].files, fileId) IN
    IF file.burn.type = "none" THEN w
    ELSE IF file.burn.type = "downloads" THEN
      IF MapGetOr0(w.fd, fileId) >= file.burn.downloads
        THEN burnFile(w, fileId, roomCode) ELSE w
    ELSE IF file.burn.type = "time" THEN
      IF fileId \in DOMAIN w.ffa /\ w.ffa[fileId] # 0
        THEN IF t >= w.ffa[fileId] + file.burn.minutes * 60 * 1000
               THEN burnFile(w, fileId, roomCode) ELSE w
        ELSE w
    ELSE w

\* history bookkeeping for the burns a step performed
BurnCount(bs, f) == Cardinality({i \in 1..Len(bs) : bs[i] = f})
NoteBurns(bs) ==
  /\ burned' = [f \in DOMAIN burned \cup {bs[i] : i \in 1..Len(bs)} |->
                  MapGetOr0(burned, f) + BurnCount(bs, f)]
  /\ burnedAt' = [f \in DOMAIN burnedAt \cup {bs[i] : i \in 1..Len(bs)} |->
                  IF BurnCount(bs, f) > 0 THEN now ELSE burnedAt[f]]

\* -------------------------------------------------------------------- Init
Init ==
  /\ rooms = [c \in {} |-> 0]
  /\ fileDownloads = EmptyMap
  /\ fileFirstAccess = EmptyMap
  /\ currentRoom = [s \in Sessions |-> Null]
  /\ currentUser = [s \in Sessions |-> Null]
  /\ connected = [s \in Sessions |-> TRUE]
  /\ joined = [s \in Sessions |-> {}]
  /\ uploads = {}
  /\ timers = {}
  /\ now = StartTime
  /\ nextId = 1
  /\ nUploads = 0
  /\ nJoins = 0
  /\ reports = EmptyMap
  /\ burned = EmptyMap
  /\ firstReportAt = EmptyMap
  /\ burnedAt = EmptyMap
  /\ timerFired = {}
  /\ emptied = {}
  /\ stale = {}
  /\ policy = EmptyMap
  /\ sharedIn = EmptyMap
  /\ sharedTo = EmptyMap
  /\ listedTo = EmptyMap
  /\ swept = {}
  /\ ignored = {}
  /\ foreign = {}
  /\ armed = EmptyMap
  /\ evicted = {}

\* A state the server is in after one session created a room and shared
\* MaxFiles files to it: the first with a download-count policy, not yet
\* accessed, the others without a policy, all at a provider without expiry;
\* the other connection has closed.
FullManifest ==
  [i \in 1..MaxFiles |->
     [id |-> i, provider |-> "catbox", expiresAt |-> NoExpiry,
      burn |-> IF i = 1 THEN [type |-> "downloads", downloads |-> 2, minutes |-> 0]
               ELSE [type |-> "none", downloads |-> 0, minutes |-> 0]]]

InitFull ==
  /\ rooms = MapSet([c \in {} |-> 0], "K1", [users |-> {"s1"}, files |-> FullManifest])
  /\ fileDownloads = MapSet(EmptyMap, 1, 0)
  /\ fileFirstAccess = EmptyMap
  /\ currentRoom = [s \in Sessions |-> IF s = "s1" THEN "K1" ELSE Null]
  /\ currentUser = [s \in Sessions |-> IF s = "s1" THEN "ann" ELSE Null]
  /\ connected = [s \in Sessions |-> s = "s1"]
  /\ joined = [s \in Sessions |-> IF s = "s1" THEN {"K1"} ELSE {}]
  /\ uploads = {}
  /\ timers = {}
  /\ now = StartTime
  /\ nextId = MaxFiles + 1
  /\ nUploads = 0
  /\ nJoins = 1
  /\ reports = EmptyMap
  /\ burned = EmptyMap
  /\ firstReportAt = EmptyMap
  /\ burnedAt = EmptyMap
  /\ timerFired = {}
  /\ emptied = {}
  /\ stale = {}
  /\ policy = [i \in 1..MaxFiles |-> FullManifest[i].burn]
  /\ sharedIn = [i \in 1..MaxFiles |-> "K1"]
  /\ sharedTo = [i \in 1..MaxFiles |-> {"s1"}]
  /\ listedTo = [i \in 1..MaxFiles |-> {}]
  /\ swept = {}
  /\ ignored = {}
  /\ foreign = {}
  /\ armed = EmptyMap
  /\ evicted = {}

\* ------------------------------------------------------------- create-room
\* rooms.set(roomCode, { users: new Map([[socket.id, username]]), files: [] })
NewRoom(s) == [users |-> {s}, files |-> <<>>]

CreateRoomOut(s, roomCode) == <<Msg("room-created", {s}, roomCode, 0, <<>>, 0)>>

CreateRoom(s, username, roomCode) ==
  /\ connected[s]
  /\ nJoins < MaxJoins
  /\ nJoins' = nJoins + 1
  /\ rooms' = MapSet(rooms, roomCode, NewRoom(s))
  /\ joined' = [joined EXCEPT ![s] = @ \cup {roomCode}]
  /\ currentRoom' = [currentRoom EXCEPT ![s] = roomCode]
  /\ currentUser' = [currentUser EXCEPT ![s] = username]
  /\ UNCHANGED <<fileDownloads, fileFirstAccess, connected, uploads, timers, now,
                 nextId, nUploads>>
  /\ UNCHANGED hvars

\* --------------------------------------------------------------- join-room
JoinRoomOut(s, roomCode) ==
  IF roomCode \notin DOMAIN rooms
    THEN <<Msg("error", {s}, roomCode, 0, <<>>, 0)>>
    ELSE LET to == InRoom(joined, connected, roomCode) \cup {s}
             n == Cardinality(rooms[roomCode].users \cup {s})
         IN << Msg("room-joined", {s}, roomCode, 0, rooms[roomCode].files, 0),
               Msg("user-joined", to \ {s}, roomCode, 0, <<>>, n),
               Msg("users-update", to, roomCode, 0, <<>>, n) >>

JoinRoom(s, username, roomCode) ==
  /\ connected[s]
  /\ IF roomCode \notin DOMAIN rooms
       THEN UNCHANGED <<rooms, joined, currentRoom, currentUser, nJoins, listedTo>>
       ELSE /\ nJoins < MaxJoins
            /\ listedTo' = [f \in DOMAIN listedTo |->
                              IF f \in FileIds(rooms[roomCode].files)
                                THEN listedTo[f] \cup {s} ELSE listedTo[f]]
            /\ nJoins' = nJoins + 1
            /\ rooms' = [rooms EXCEPT ![roomCode].users = @ \cup {s}]
            /\ joined' = [joined EXCEPT ![s] = @ \cup {roomCode}]
            /\ currentRoom' = [currentRoom EXCEPT ![s] = roomCode]
            /\ currentUser' = [currentUser EXCEPT ![s] = username]
  /\ UNCHANGED <<fileDownloads, fileFirstAccess, connected, uploads, timers, now,
                 nextId, nUploads>>
  /\ UNCHANGED <<reports, burned, firstReportAt, burnedAt, timerFired, emptied, stale,
                 policy, sharedIn, sharedTo, swept, ignored, foreign, armed, evicted>>

\* ------------------------------------------------------------- upload-file
\* room.files.push(file); if (room.files.length > 100) room.files.shift();
\* variant: the overflow test off by one (>= instead of >)
AppendFile_early(files, file) ==
  LET pushed == Append(files, file)
  IN IF Len(pushed) >= MaxFiles THEN Tail(pushed) ELSE pushed

AppendFile(files, file) ==
  LET pushed == Append(files, file)
  IN IF Len(pushed) > MaxFiles THEN Tail(pushed) ELSE pushed

\* the file record built after the provider call returned (the fields the
\* server reads again)
NewFile(u, id, t) ==
  [id |-> id, provider |-> u.provider, expiresAt |-> ProviderExpiresAt(u.provider, t),
   burn |-> u.burn]

\* const room = rooms.get(currentRoom); if (room) { push; shift }
\* variant: the record is put in the manifest of another room than the one
\* the broadcast goes to
InsertFile_elsewhere(rs, room, file) ==
  IF DOMAIN rs \ {room} # {}
    THEN [rs EXCEPT ![CHOOSE c \in DOMAIN rs : c # room].files = AppendFile(@, file)]
    ELSE rs

InsertFile(rs, room, file) ==
  IF room \in DOMAIN rs THEN [rs EXCEPT ![room].files = AppendFile(@, file)] ELSE rs

\* if (burn) fileDownloads.set(file.id, 0)
InitCounter(fd, file) ==
  IF file.burn.type # "none" THEN MapSet(fd, file.id, 0) ELSE fd

\* the room the continuation of the handler works on: the closure's
\* currentRoom as it is when the provider call returns
UploadRoom(u) == currentRoom[u.s]

\* the handler's record of an upload: who sent it, what it named, and the
\* binding it was accepted under
Upload(n, s, in) ==
  [n |-> n, s |-> s, provider |-> in.provider, burn |-> in.burn, room |-> currentRoom[s]]

\* base64ToBuffer threw, the lookup found nothing, or the call of what it
\* found threw at once: the catch block runs before the handler ever waits
\* variant: a payload that cannot be decoded does not stop the handler
FailsAtOnce_lenient(in) ==
  ~KnownProvider(in.provider) \/ in.provider \in InheritedThrowing

FailsAtOnce(in) ==
  ~in.dataOk \/ ~KnownProvider(in.provider) \/ in.provider \in InheritedThrowing

\* what the handler emits before it waits for the provider (all of it to the
\* uploader), and all it emits when the call it awaits is no network call
UploadFileOut(s, in) ==
  LET p10 == Msg("upload-progress", {s}, Null, 0, <<>>, 10)
      p30 == Msg("upload-progress", {s}, Null, 0, <<>>, 30)
      p90 == Msg("upload-progress", {s}, Null, 0, <<>>, 90)
      err == Msg("upload-error", {s}, Null, 0, <<>>, 0)
      u == Upload(nUploads + 1, s, in)
  IN IF ~Truthy(currentRoom[s]) THEN <<>>
     ELSE IF ~in.dataOk THEN <<p10, err>>
     ELSE IF FailsAtOnce(in) THEN <<p10, p30, err>>
     ELSE IF in.provider \in InheritedReturning
       THEN << p10, p30, p90,
               Msg("file-shared", InRoom(joined, connected, UploadRoom(u)), UploadRoom(u),
                   nextId, <<NewFile(u, nextId, now)>>, 0) >>
     ELSE <<p10, p30>>

\* the handler after the provider call returned: the record is built, put in
\* the manifest of the room the closure names, and announced
ShareFile(u) ==
  LET file == NewFile(u, nextId, now)
  IN /\ rooms' = InsertFile(rooms, UploadRoom(u), file)
     /\ fileDownloads' = InitCounter(fileDownloads, file)
     /\ nextId' = nextId + 1
     /\ policy' = MapSet(policy, file.id, file.burn)
     /\ sharedIn' = MapSet(sharedIn, file.id, UploadRoom(u))
     /\ sharedTo' = MapSet(sharedTo, file.id, InRoom(joined, connected, UploadRoom(u)))
     /\ listedTo' = MapSet(listedTo, file.id, {})
     /\ evicted' = evicted \cup (AllFileIds(rooms) \ AllFileIds(rooms'))

\* the handler up to the await of the provider call. A handler that returns
\* or throws before it leaves the state as it is; one whose provider name
\* found an inherited function awaits a plain value and resumes before any
\* other event is handled
UploadFile(s, in) ==
  /\ connected[s]
  /\ IF ~Truthy(currentRoom[s]) \/ FailsAtOnce(in)
       THEN UNCHANGED <<uploads, nUploads, rooms, fileDownloads, nextId, policy, sharedIn,
                        sharedTo, listedTo, evicted>>
     ELSE IF in.provider \in InheritedReturning
       THEN /\ nUploads < MaxUploads
            /\ nUploads' = nUploads + 1
            /\ ShareFile(Upload(nUploads + 1, s, in))
            /\ UNCHANGED uploads
       ELSE /\ nUploads < MaxUploads
            /\ nUploads' = nUploads + 1
            /\ uploads' = uploads \cup {Upload(nUploads + 1, s, in)}
            /\ UNCHANGED <<rooms, fileDownloads, nextId, policy, sharedIn, sharedTo, listedTo,
                           evicted>>
  /\ UNCHANGED <<fileFirstAccess, currentRoom, currentUser, connected, joined, timers,
                 now, nJoins>>
  /\ UNCHANGED <<reports, burned, firstReportAt, burnedAt, timerFired, emptied, stale,
                 swept, ignored, foreign, armed>>

StoreDoneOut(u, ok) ==
  IF ~ok THEN <<Msg("upload-error", Self(connected, u.s), Null, 0, <<>>, 0)>>
  ELSE << Msg("upload-progress", Self(connected, u.s), Null, 0, <<>>, 90),
          Msg("file-shared", InRoom(joined, connected, UploadRoom(u)), UploadRoom(u),
              nextId, <<NewFile(u, nextId, now)>>, 0) >>

\* the continuation of the handler after the await: the provider call
\* returned (ok) or threw (~ok)
StoreDone(u, ok) ==
  /\ u \in uploads
  /\ uploads' = uploads \ {u}
  /\ IF ~ok
       THEN UNCHANGED <<rooms, fileDownloads, nextId, policy, sharedIn, sharedTo, listedTo,
                        evicted>>
       ELSE ShareFile(u)
  /\ UNCHANGED <<fileFirstAccess, currentRoom, currentUser, connected, joined,
                 timers, now, nUploads, nJoins>>
  /\ UNCHANGED <<reports, burned, firstReportAt, burnedAt, timerFired, emptied, stale,
                 swept, ignored, foreign, armed>>

\* --------------------------------------------------------- file-downloaded
\* if (!fileFirstAccess.has(fileId)) fileFirstAccess.set(fileId, Date.now())
\* variant: the first-access time overwritten by every report
RecordFirstAccess_always(ffa, fileId, t) == MapSet(ffa, fileId, t)

RecordFirstAccess(ffa, fileId, t) ==
  IF fileId \in DOMAIN ffa THEN ffa ELSE MapSet(ffa, fileId, t)

\* const downloads = (fileDownloads.get(fileId) || 0) + 1
RecordDownload(fd, fileId) == MapSet(fd, fileId, MapGetOr0(fd, fileId) + 1)

\* the early returns of the handler
\* variant: a report on a file without a burn policy is not turned away
ReportIgnored_anyfile(s, fileId) ==
  \/ ~Truthy(currentRoom[s])
  \/ currentRoom[s] \notin DOMAIN rooms
  \/ ~HasFile(rooms, currentRoom[s], fileId)

ReportIgnored(s, fileId) ==
  \/ ~Truthy(currentRoom[s])
  \/ currentRoom[s] \notin DOMAIN rooms
  \/ ~HasFile(rooms, currentRoom[s], fileId)
  \/ FindFile(rooms[currentRoom[s]].files, fileId).burn.type = "none"

\* the last of the early returns: the file is in the reporter's room and was
\* shared without a burn policy
ReportUnarmed(s, fileId) ==
  /\ Truthy(currentRoom[s])
  /\ currentRoom[s] \in DOMAIN rooms
  /\ HasFile(rooms, currentRoom[s], fileId)
  /\ FindFile(rooms[currentRoom[s]].files, fileId).burn.type = "none"

\* the report of a session bound to a live room names a file that is listed
\* in another room only
ReportAbroad(s, fileId) ==
  /\ Truthy(currentRoom[s])
  /\ currentRoom[s] \in DOMAIN rooms
  /\ ~HasFile(rooms, currentRoom[s], fileId)
  /\ fileId \in AllFileIds(rooms)

\* the handler's effect on rooms and tracker once the report is counted
ReportEffect(s, fileId) ==
  checkBurnConditions([World EXCEPT !.fd = RecordDownload(@, fileId),
                                    !.ffa = RecordFirstAccess(@, fileId, now)],
                      fileId, currentRoom[s], now)

FileDownloadedOut(s, fileId) ==
  IF ReportIgnored(s, fileId) THEN <<>> ELSE ReportEffect(s, fileId).out

\* setTimeout(..., file.burn.minutes * 60 * 1000), armed by the first report
\* on a time-policy file
\* variant: every report on a time-policy file arms a check
ArmTimer_always(tms, s, file, t) ==
  IF file.burn.type = "time"
    THEN tms \cup {[fileId |-> file.id, s |-> s, due |-> t + file.burn.minutes * 60 * 1000]}
    ELSE tms

ArmTimer(tms, s, file, t) ==
  IF file.id \notin DOMAIN fileFirstAccess /\ file.burn.type = "time"
    THEN tms \cup {[fileId |-> file.id, s |-> s, due |-> t + file.burn.minutes * 60 * 1000]}
    ELSE tms

FileDownloaded(s, fileId) ==
  /\ connected[s]
  /\ IF ReportIgnored(s, fileId)
       THEN /\ stale' = IF fileId \in AllFileIds(rooms) THEN stale ELSE stale \cup {fileId}
            /\ ignored' = IF ReportUnarmed(s, fileId) THEN ignored \cup {fileId} ELSE ignored
            /\ foreign' = IF ReportAbroad(s, fileId) THEN foreign \cup {fileId} ELSE foreign
            /\ UNCHANGED <<rooms, fileDownloads, fileFirstAccess, timers>>
            /\ UNCHANGED <<reports, burned, firstReportAt, burnedAt, timerFired, emptied,
                           policy, sharedIn, sharedTo, listedTo, swept, armed, evicted>>
       ELSE LET file == FindFile(rooms[currentRoom[s]].files, fileId)
                w == ReportEffect(s, fileId)
            IN /\ MapGetOr0(reports, fileId) < MaxReports
               /\ timers' = ArmTimer(timers, s, file, now)
               /\ armed' = IF timers' # timers
                              THEN MapSet(armed, fileId, MapGetOr0(armed, fileId) + 1)
                              ELSE armed
               /\ rooms' = w.rooms
               /\ fileDownloads' = w.fd
               /\ fileFirstAccess' = w.ffa
               /\ reports' = MapSet(reports, fileId, MapGetOr0(reports, fileId) + 1)
               /\ firstReportAt' = IF fileId \in DOMAIN firstReportAt THEN firstReportAt
                                   ELSE MapSet(firstReportAt, fileId, now)
               /\ NoteBurns(w.burns)
               /\ UNCHANGED <<timerFired, emptied, stale, policy, sharedIn, sharedTo, listedTo,
                              swept, ignored, foreign, evicted>>
  /\ UNCHANGED <<currentRoom, currentUser, connected, joined, uploads, now,
                 nextId, nUploads, nJoins>>

\* the room the setTimeout callback checks: the closure's currentRoom as it
\* is when the timer fires
TimerRoom(tm) == currentRoom[tm.s]

TimerEffect(tm) == checkBurnConditions(World, tm.fileId, TimerRoom(tm), now)

TimerFire(tm) ==
  /\ tm \in timers
  /\ now >= tm.due
  /\ timers' = timers \ {tm}
  /\ LET w == TimerEffect(tm)
     IN /\ rooms' = w.rooms
        /\ fileDownloads' = w.fd
        /\ fileFirstAccess' = w.ffa
        /\ NoteBurns(w.burns)
  /\ timerFired' = timerFired \cup {tm.fileId}
  /\ stale' = IF tm.fileId \in AllFileIds(rooms) THEN stale ELSE stale \cup {tm.fileId}
  /\ UNCHANGED <<currentRoom, currentUser, connected, joined, uploads, now,
                 nextId, nUploads, nJoins, reports, firstReportAt, emptied, policy,
                 sharedIn, sharedTo, listedTo, swept, ignored, foreign, armed, evicted>>

\* --------------------------------------------------- leave-room, disconnect
\* room.files.forEach(f => { fileDownloads.delete(f.id); fileFirstAccess.delete(f.id) })
\* variant: the tracker entries of the room's files left behind
CleanupTracking_skip(m, files) == m

CleanupTracking(m, files) == MapDelAll(m, FileIds(files))

handleLeave(w, s, jn, conn) ==
  IF Truthy(currentRoom[s]) /\ Truthy(currentUser[s]) /\ currentRoom[s] \in DOMAIN w.rooms
    THEN LET code == currentRoom[s]
             room == w.rooms[code]
             users2 == room.users \ {s}
             n == Cardinality(users2)
             out2 == << Msg("user-left", InRoom(jn, conn, code) \ {s}, code, 0, <<>>, n),
                        Msg("users-update", InRoom(jn, conn, code), code, 0, <<>>, n) >>
         IN IF n = 0
              THEN [w EXCEPT !.rooms = MapDel(@, code),
                             !.fd = CleanupTracking(@, room.files),
                             !.ffa = CleanupTracking(@, room.files),
                             !.out = out2,
                             !.gone = FileIds(room.files)]
              ELSE [w EXCEPT !.rooms[code].users = users2, !.out = out2]
    ELSE w

LeaveRoomOut(s) == handleLeave(World, s, joined, connected).out

LeaveRoom(s) ==
  /\ connected[s]
  /\ LET w == handleLeave(World, s, joined, connected)
     IN /\ rooms' = w.rooms
        /\ fileDownloads' = w.fd
        /\ fileFirstAccess' = w.ffa
        /\ emptied' = emptied \cup w.gone
  /\ currentRoom' = [currentRoom EXCEPT ![s] = Null]
  /\ currentUser' = [currentUser EXCEPT ![s] = Null]
  /\ UNCHANGED <<connected, joined, uploads, timers, now, nextId, nUploads, nJoins,
                 reports, burned, firstReportAt, burnedAt, timerFired, stale, policy,
                 sharedIn, sharedTo, listedTo, swept, ignored, foreign, armed, evicted>>

\* socket.io takes the socket out of all its rooms before 'disconnect' is emitted
DisconnectOut(s) ==
  handleLeave(World, s, [joined EXCEPT ![s] = {}], [connected EXCEPT ![s] = FALSE]).out

Disconnect(s) ==
  /\ connected[s]
  /\ connected' = [connected EXCEPT ![s] = FALSE]
  /\ joined' = [joined EXCEPT ![s] = {}]
  /\ LET w == handleLeave(World, s, joined', connected')
     IN /\ rooms' = w.rooms
        /\ fileDownloads' = w.fd
        /\ fileFirstAccess' = w.ffa
        /\ emptied' = emptied \cup w.gone
  /\ currentRoom' = [currentRoom EXCEPT ![s] = Null]
  /\ currentUser' = [currentUser EXCEPT ![s] = Null]
  /\ UNCHANGED <<uploads, timers, now, nextId, nUploads, nJoins,
                 reports, burned, firstReportAt, burnedAt, timerFired, stale, policy,
                 sharedIn, sharedTo, listedTo, swept, ignored, foreign, armed, evicted>>

\* ------------------------------------------------------------ expiry sweep
\* f.expiresAt && new Date(f.expiresAt).getTime() <= now
\* variant: a file is kept through the instant it expires
Expired_strict(f, t) == f.expiresAt # NoExpiry /\ f.expiresAt < t

Expired(f, t) == f.expiresAt # NoExpiry /\ f.expiresAt <= t

ExpiredIds(rs, t) ==
  UNION {{rs[c].files[i].id : i \in {j \in 1..Len(rs[c].files) : Expired(rs[c].files[j], t)}}
         : c \in DOMAIN rs}

Sweep ==
  /\ rooms' = [c \in DOMAIN rooms |->
                 [rooms[c] EXCEPT !.files = SelectSeq(@, LAMBDA f : ~Expired(f, now))]]
  /\ fileDownloads' = MapDelAll(fileDownloads, ExpiredIds(rooms, now))
  /\ fileFirstAccess' = MapDelAll(fileFirstAccess, ExpiredIds(rooms, now))
  /\ UNCHANGED <<currentRoom, currentUser, connected, joined, uploads, timers, now,
                 nextId, nUploads, nJoins>>
  /\ swept' = swept \cup ExpiredIds(rooms, now)
  /\ UNCHANGED <<reports, burned, firstReportAt, burnedAt, timerFired, emptied, stale,
                 policy, sharedIn, sharedTo, listedTo, ignored, foreign, armed, evicted>>

\* --------------------------------------------------------------- the clock
Tick ==
  /\ now < StartTime + MaxTicks * HourMs
  /\ now' = now + HourMs
  /\ UNCHANGED <<rooms, fileDownloads, fileFirstAccess, currentRoom, currentUser,
                 connected, joined, uploads, timers, nextId, nUploads, nJoins>>
  /\ UNCHANGED hvars

\* file ids a client names in a report: the oldest id and the newest ones
KnownIds == {f \in 1..(nextId - 1) : f = 1 \/ f >= nextId - MaxUploads}

Next ==
  \/ \E s \in Sessions, username \in Usernames, code \in Codes : CreateRoom(s, username, code)
  \/ \E s \in Sessions, username \in Usernames, code \in Codes : JoinRoom(s, username, code)
  \/ \E s \in Sessions, in \in UploadInputs : UploadFile(s, in)
  \/ \E u \in uploads, ok \in BOOLEAN : StoreDone(u, ok)
  \/ \E s \in Sessions, fileId \in KnownIds : FileDownloaded(s, fileId)
  \/ \E tm \in timers : TimerFire(tm)
  \/ \E s \in Sessions : LeaveRoom(s)
  \/ \E s \in Sessions : Disconnect(s)
  \/ Sweep
  \/ Tick

Spec == Init /\ [][Next]_vars

\* the same server, observed from a state with a full manifest
SpecFull == InitFull /\ [][Next]_vars

\* ================================================================= claims
PolicyIds(type) == {f \in DOMAIN policy : policy[f].type = type}
TrackerKeys == DOMAIN fileDownloads \cup DOMAIN fileFirstAccess
Sorted(files) == \A i \in 1..(Len(files) - 1) : files[i].id < files[i + 1].id

\* C1: no room in the registry has an empty members map, and no file id that
\* was in a room's manifest when the room emptied is a key of fileDownloads
\* or fileFirstAccess.
C1_EmptyRoomGone ==
  /\ \A c \in DOMAIN rooms : rooms[c].users # {}
  /\ emptied \cap TrackerKeys = {}

\* a room emptied while its manifest held a file that had been accessed
C1_Witness == \E f \in emptied : MapGetOr0(reports, f) >= 1

\* C2: for a file with a download-count policy of threshold T, no file-burned
\* is broadcast while fewer than T reports were counted, and once the T-th
\* report is counted exactly one file-burned was broadcast and the file is in
\* no manifest.
C2_BurnAtThreshold ==
  \A f \in PolicyIds("downloads") :
    /\ MapGetOr0(reports, f) < policy[f].downloads => MapGetOr0(burned, f) = 0
    /\ MapGetOr0(reports, f) >= policy[f].downloads =>
         MapGetOr0(burned, f) = 1 /\ f \notin AllFileIds(rooms)

\* the threshold-th report on a download-count file was counted and burned it
C2_Witness ==
  \E f \in PolicyIds("downloads") :
    MapGetOr0(reports, f) = policy[f].downloads /\ MapGetOr0(burned, f) = 1

\* C3: a file with a time policy of W minutes is never burned earlier than W
\* minutes after its first counted report, however many reports arrive, and
\* the first-access time kept for it is the time of the first report.
C3_NoBurnBeforeWindow ==
  \A f \in PolicyIds("time") :
    /\ f \in DOMAIN burned => burnedAt[f] >= firstReportAt[f] + policy[f].minutes * 60 * 1000
    /\ f \in DOMAIN fileFirstAccess => fileFirstAccess[f] = firstReportAt[f]

\* a time-policy file got several reports and was burned when its window ended
C3_Witness ==
  \E f \in PolicyIds("time") :
    /\ MapGetOr0(reports, f) >= 2
    /\ MapGetOr0(burned, f) = 1
    /\ burnedAt[f] = firstReportAt[f] + policy[f].minutes * 60 * 1000

\* C4: once the deferred check armed by the first report on a time-policy
\* file has fired, the file is in no manifest: it was removed before, or the
\* check burned it, whatever the sessions did in the meantime.
C4_TimerBurns == \A f \in timerFired : f \notin AllFileIds(rooms)

\* C5: every key of fileDownloads and of fileFirstAccess is the id of a file
\* in the manifest of a live room.
C5_TrackerWithinManifests == TrackerKeys \subseteq AllFileIds(rooms)

\* C6: when an upload pushes a file onto a manifest that holds MaxFiles
\* files, the tracker entries of the evicted oldest file are removed in the
\* same step.
C6_EvictionPurges ==
  [][\A u \in uploads :
       (/\ StoreDone(u, TRUE)
        /\ UploadRoom(u) \in DOMAIN rooms
        /\ Len(rooms[UploadRoom(u)].files) = MaxFiles)
       => rooms[UploadRoom(u)].files[1].id \notin (DOMAIN fileDownloads' \cup DOMAIN fileFirstAccess')
    ]_vars

\* C7: after every step each manifest holds at most MaxFiles files in order
\* of insertion; a file inserted into a manifest is its last entry, and an
\* insertion into a manifest of MaxFiles files removes the head and nothing
\* else.
C7_ManifestBounded ==
  [][/\ \A c \in DOMAIN rooms' :
          Len(rooms'[c].files) <= MaxFiles /\ Sorted(rooms'[c].files)
     /\ \A u \in uploads :
          (StoreDone(u, TRUE) /\ UploadRoom(u) \in DOMAIN rooms) =>
            LET old == rooms[UploadRoom(u)].files
                new == rooms'[UploadRoom(u)].files
            IN /\ new[Len(new)].id = nextId
               /\ IF Len(old) = MaxFiles
                    THEN new = Append(Tail(old), new[Len(new)])
                    ELSE new = Append(old, new[Len(new)])
    ]_vars

\* a full manifest took one more file: the head is gone, the new file is last
C7_Witness ==
  \E c \in DOMAIN rooms :
    /\ Len(rooms[c].files) = MaxFiles
    /\ rooms[c].files[1].id = 2
    /\ rooms[c].files[MaxFiles].id = MaxFiles + 1

\* C8: create-room never takes the code of a live room: every room that
\* existed before is unchanged, and the new room has an empty manifest and
\* the creator as its only member.
C8_CreateKeepsRooms ==
  [][\A s \in Sessions, username \in Usernames, code \in Codes :
       CreateRoom(s, username, code) =>
         /\ code \notin DOMAIN rooms
         /\ \A c \in DOMAIN rooms : c \in DOMAIN rooms' /\ rooms'[c] = rooms[c]
         /\ rooms'[code] = [users |-> {s}, files |-> <<>>]
    ]_vars

\* C9: when the store call of an upload accepted in room R succeeds, the file
\* goes to R if R still exists (inserted into its manifest and file-shared
\* broadcast to the sockets in R), no other room's manifest changes, and
\* file-shared reaches nobody unless the file was inserted.
C9_UploadStaysInRoom ==
  [][\A u \in uploads :
       StoreDone(u, TRUE) =>
         LET shared == StoreDoneOut(u, TRUE)[2]
         IN /\ u.room \in DOMAIN rooms =>
                 /\ HasFile(rooms', u.room, nextId)
                 /\ shared.to = InRoom(joined, connected, u.room)
            /\ \A c \in DOMAIN rooms \ {u.room} : rooms'[c] = rooms[c]
            /\ shared.to # {} => nextId \in AllFileIds(rooms')
    ]_vars

\* C10: at most one file-burned is ever broadcast per file id, and a burn
\* trigger (a report, a fired deferred check) naming a file that is in no
\* manifest emits nothing and changes no room, manifest or tracker state.
C10_BurnIdempotent ==
  [][/\ \A f \in DOMAIN burned' : burned'[f] <= 1
     /\ \A s \in Sessions, f \in KnownIds :
          (FileDownloaded(s, f) /\ f \notin AllFileIds(rooms)) =>
            /\ UNCHANGED <<rooms, fileDownloads, fileFirstAccess, burned>>
            /\ FileDownloadedOut(s, f) = <<>>
     /\ \A tm \in timers :
          (TimerFire(tm) /\ tm.fileId \notin AllFileIds(rooms)) =>
            /\ UNCHANGED <<rooms, fileDownloads, fileFirstAccess, burned>>
            /\ TimerEffect(tm).out = <<>>
    ]_vars

\* a burn trigger was processed for a file that had already been burned
C10_Witness == \E f \in stale : MapGetOr0(burned, f) = 1

\* the messages of one step: how many carry the event, and who receives them
CountEv(out, ev) == Cardinality({i \in DOMAIN out : out[i].ev = ev})
Receivers(out, ev) == UNION {out[i].to : i \in {j \in DOMAIN out : out[j].ev = ev}}

\* C11: an upload-file of a session in a room that names a provider which is
\* not one of the registered providers ends with exactly one upload-error,
\* sent to the uploader only: no store call is started, no file-shared is
\* broadcast, and every manifest and all burn tracker state stay as they are.
C11_UnknownProviderRejected ==
  [][\A s \in Sessions, in \in UploadInputs :
       (UploadFile(s, in) /\ Truthy(currentRoom[s]) /\ in.provider \notin RegisteredProviders) =>
         /\ CountEv(UploadFileOut(s, in), "upload-error") = 1
         /\ Receivers(UploadFileOut(s, in), "upload-error") = {s}
         /\ CountEv(UploadFileOut(s, in), "file-shared") = 0
         /\ UNCHANGED <<rooms, fileDownloads, fileFirstAccess, uploads, nextId>>
    ]_vars

\* C12: once the last member of room K has left or disconnected, K is gone:
\* a join-room with code K (until a create-room makes K again) is answered
\* with one error, to the joiner only, creates no room, adds no member and
\* leaves the joiner's binding as it is.
C12_EmptiedRoomNotFound ==
  [][/\ \A s \in Sessions :
          ( /\ LeaveRoom(s) \/ Disconnect(s)
            /\ currentRoom[s] \in DOMAIN rooms
            /\ rooms[currentRoom[s]].users = {s} ) => currentRoom[s] \notin DOMAIN rooms'
     /\ \A s \in Sessions, username \in Usernames, code \in Codes :
          (JoinRoom(s, username, code) /\ code \notin DOMAIN rooms) =>
            /\ Len(JoinRoomOut(s, code)) = 1
            /\ CountEv(JoinRoomOut(s, code), "error") = 1
            /\ Receivers(JoinRoomOut(s, code), "error") = {s}
            /\ UNCHANGED <<rooms, currentRoom, currentUser, joined>>
    ]_vars

\* C13: after a leave-room or disconnect of a session has been handled, the
\* session id is a key of no room's members map, whatever username it gave
\* and however many rooms it created or joined before.
C13_LeftSessionInNoRoom ==
  [][\A s \in Sessions :
       (LeaveRoom(s) \/ Disconnect(s)) => \A c \in DOMAIN rooms' : s \notin rooms'[c].users
    ]_vars

\* C14: in every reachable state a session id is a member of at most one
\* room, and that room is the one the session is bound to.
C14_OneRoomPerSession ==
  \A s \in Sessions :
    /\ Cardinality({c \in DOMAIN rooms : s \in rooms[c].users}) <= 1
    /\ \A c \in DOMAIN rooms : s \in rooms[c].users => currentRoom[s] = c

\* C15: a file shared without a burn policy is never removed by burn. No
\* file-burned is ever broadcast for it, no access report and no timer takes
\* it out of a manifest, and it never gets a fileDownloads or fileFirstAccess
\* entry.
C15_NoPolicyNeverBurned ==
  [][\A f \in PolicyIds("none") :
       /\ MapGetOr0(burned', f) = 0
       /\ f \notin DOMAIN fileDownloads' \cup DOMAIN fileFirstAccess'
       /\ ( /\ \/ \E s \in Sessions, g \in KnownIds : FileDownloaded(s, g)
               \/ \E tm \in timers : TimerFire(tm)
            /\ f \in AllFileIds(rooms) ) => f \in AllFileIds(rooms')
    ]_vars

\* a file without a policy is still listed after a member of its room
\* reported an access to it
C15_Witness ==
  \E f \in ignored :
    /\ policy[f].type = "none"
    /\ f \in AllFileIds(rooms)
    /\ MapGetOr0(burned, f) = 0

\* the ids of the listed files whose expiry time is set and has come
Due(rs, t) ==
  UNION {{rs[c].files[i].id :
            i \in {j \in 1..Len(rs[c].files) :
                     rs[c].files[j].expiresAt # NoExpiry /\ rs[c].files[j].expiresAt <= t}}
         : c \in DOMAIN rs}

\* what a run of the sweep has to leave behind
SweepFrame ==
  LET due == Due(rooms, now)
  IN /\ DOMAIN rooms' = DOMAIN rooms
     /\ \A c \in DOMAIN rooms :
          /\ rooms'[c].users = rooms[c].users
          /\ rooms'[c].files = SelectSeq(rooms[c].files, LAMBDA f : f.id \notin due)
     /\ fileDownloads' = [f \in DOMAIN fileDownloads \ due |-> fileDownloads[f]]
     /\ fileFirstAccess' = [f \in DOMAIN fileFirstAccess \ due |-> fileFirstAccess[f]]
     /\ UNCHANGED <<currentRoom, currentUser, joined, connected, burned, timers>>

\* C16: a run of the expiry sweep removes from every manifest exactly the
\* files whose expiresAt is set and not later than now, whatever their burn
\* policy and access history, and keeps the others in their order; it deletes
\* the tracker entries of exactly those files; it changes no membership,
\* deletes no room and burns nothing. (In no reachable state can the sweep
\* run and end otherwise.)
C16_SweepExact == ~ENABLED (Sweep /\ ~SweepFrame)

\* the sweep took an expired file that had a burn policy and had been
\* accessed, with its tracker entries, out of a manifest that kept its other
\* files
C16_Witness ==
  \E f \in swept :
    /\ policy[f].type # "none"
    /\ MapGetOr0(reports, f) >= 1
    /\ MapGetOr0(burned, f) = 0
    /\ f \notin TrackerKeys
    /\ \E c \in DOMAIN rooms : Len(rooms[c].files) >= 2

\* what a failed upload may not touch: rooms, members, manifests, tracker,
\* bindings, and the issue of file ids
Untouched ==
  UNCHANGED <<rooms, fileDownloads, fileFirstAccess, currentRoom, currentUser,
              joined, connected, timers, nextId>>

\* the one message of a failed upload: an upload-error, to nobody but s
OnlyErrorTo(out, s) ==
  /\ CountEv(out, "upload-error") = 1
  /\ Receivers(out, "upload-error") \subseteq {s}
  /\ \A i \in DOMAIN out : out[i].ev \in {"upload-error", "upload-progress"} /\ out[i].to \subseteq {s}

BurnsAhead ==
  UNION ( {{FileDownloadedOut(s, f)[i] : i \in DOMAIN FileDownloadedOut(s, f)}
           : s \in {x \in Sessions : connected[x]}, f \in KnownIds}
          \cup {{TimerEffect(tm).out[i] : i \in DOMAIN TimerEffect(tm).out}
                : tm \in {x \in timers : now >= x.due}} )

\* the order of announcement and burn that no observer sees reversed: a
\* file-burned names an id announced to the same room before, and the id of
\* the next file-shared is one no burn has named
BurnFollowsShare ==
  /\ \A m \in BurnsAhead :
       /\ m.ev = "file-burned"
       /\ m.fileId \in DOMAIN sharedIn
       /\ sharedIn[m.fileId] = m.room
  /\ DOMAIN burned \subseteq DOMAIN sharedIn
  /\ DOMAIN sharedIn = 1..(nextId - 1)

\* C18: for every file id and every member of its room, the file-shared of
\* the id is observed before its file-burned: whoever receives a file-burned
\* has received the file-shared of that id earlier, and file-burned is
\* broadcast only for an id whose file-shared went to that room earlier.
C18_SharedBeforeBurned ==
  /\ BurnFollowsShare
  /\ \A m \in BurnsAhead : m.to \subseteq sharedTo[m.fileId]

\* C18, amended: whoever receives a file-burned has learned of the id
\* earlier, from its file-shared or from the manifest in the room-joined
\* answer to its own join; file-burned is broadcast only for an id whose
\* file-shared went to that room earlier.
C18_KnownBeforeBurned ==
  /\ BurnFollowsShare
  /\ \A m \in BurnsAhead : m.to \subseteq sharedTo[m.fileId] \cup listedTo[m.fileId]

\* a file was burned in the room it had been announced to, in front of a
\* member that had joined after the announcement
C18_Witness ==
  \E f \in DOMAIN burned :
    /\ burned[f] = 1
    /\ sharedIn[f] \in DOMAIN rooms
    /\ \E s \in listedTo[f] \ sharedTo[f] :
         connected[s] /\ sharedIn[f] \in joined[s] /\ s \in rooms[sharedIn[f]].users

\* nothing of the server's state moves
Quiet ==
  UNCHANGED <<rooms, fileDownloads, fileFirstAccess, currentRoom, currentUser,
              joined, connected, uploads, timers, nextId, nUploads>>

\* C19: upload-file, file-downloaded and leave-room from a session with no
\* bound room are no-ops: they change no room, membership, manifest or
\* tracker state, start no store call, and send no message to anyone, the
\* sender included. (In no reachable state can one of them do otherwise.)
C19_UnboundIsNoOp ==
  \A s \in Sessions :
    (connected[s] /\ currentRoom[s] = Null) =>
      /\ \A in \in UploadInputs :
           /\ UploadFileOut(s, in) = <<>>
           /\ ~ENABLED (UploadFile(s, in) /\ ~Quiet)
      /\ \A f \in KnownIds :
           /\ FileDownloadedOut(s, f) = <<>>
           /\ ~ENABLED (FileDownloaded(s, f) /\ ~Quiet)
      /\ LeaveRoomOut(s) = <<>>
      /\ ~ENABLED (LeaveRoom(s) /\ ~Quiet)

\* a session that has left its room is connected and unbound while the room
\* lives on with a listed file and a tracker entry for it: what the three
\* events of that session would have touched
C19_Witness ==
  \E s \in Sessions :
    /\ connected[s]
    /\ currentRoom[s] = Null
    /\ \E c \in joined[s] :
         /\ c \in DOMAIN rooms
         /\ s \notin rooms[c].users
         /\ FileIds(rooms[c].files) \cap DOMAIN fileDownloads # {}

\* the events a room broadcasts
RoomEvents == {"file-shared", "file-burned", "user-joined", "user-left", "users-update"}

\* the room broadcasts among the messages of a step reach, apart from the
\* sessions in but, only sessions that are keys of the members map the room
\* has after the step or are bound to the room: none that has left it
ToMembersOnly(out, but) ==
  \A i \in DOMAIN out :
    out[i].ev \in RoomEvents =>
      out[i].to \ but \subseteq
        (IF out[i].room \in DOMAIN rooms' THEN rooms'[out[i].room].users ELSE {})
          \cup {r \in Sessions : currentRoom'[r] = out[i].room}

\* C20: a room broadcast (file-shared, file-burned, user-joined, user-left,
\* users-update) for room R is delivered only to sessions that are members of
\* R when it is sent: a session that has sent leave-room for R receives no
\* later broadcast of R. (The messages of a session's own leave are left out.)
C20_BroadcastToMembersOnly ==
  [][/\ \A u \in uploads : StoreDone(u, TRUE) => ToMembersOnly(StoreDoneOut(u, TRUE), {})
     /\ \A s \in Sessions, in \in UploadInputs :
          UploadFile(s, in) => ToMembersOnly(UploadFileOut(s, in), {})
     /\ \A s \in Sessions, f \in KnownIds :
          FileDownloaded(s, f) => ToMembersOnly(FileDownloadedOut(s, f), {})
     /\ \A tm \in timers : TimerFire(tm) => ToMembersOnly(TimerEffect(tm).out, {})
     /\ \A s \in Sessions, username \in Usernames, code \in Codes :
          JoinRoom(s, username, code) => ToMembersOnly(JoinRoomOut(s, code), {})
     /\ \A s \in Sessions : LeaveRoom(s) => ToMembersOnly(LeaveRoomOut(s), {s})
     /\ \A s \in Sessions : Disconnect(s) => ToMembersOnly(DisconnectOut(s), {s})
    ]_vars

\* C21: the fileFirstAccess entry of a file is the time of the first report
\* counted for it and no later report changes it; it goes only together with
\* the file's download counter, when the tracker state is purged; and at most
\* one deferred check is ever armed per file, only for a time-policy file and
\* only by that first report.
C21_FirstAccessOnce ==
  /\ \A f \in DOMAIN fileFirstAccess :
       /\ f \in DOMAIN firstReportAt
       /\ fileFirstAccess[f] = firstReportAt[f]
       /\ f \in DOMAIN fileDownloads
  /\ \A f \in DOMAIN firstReportAt \ DOMAIN fileFirstAccess : f \notin DOMAIN fileDownloads
  /\ \A f \in DOMAIN armed :
       /\ armed[f] = 1
       /\ policy[f].type = "time"
       /\ f \in DOMAIN firstReportAt
  /\ \A tm \in timers :
       /\ MapGetOr0(armed, tm.fileId) = 1
       /\ tm.due = firstReportAt[tm.fileId] + policy[tm.fileId].minutes * 60 * 1000

\* a time-policy file got a second report and still has the first access
\* time and the one deferred check of its first report
C21_Witness ==
  \E f \in PolicyIds("time") :
    /\ MapGetOr0(reports, f) >= 2
    /\ f \in DOMAIN fileFirstAccess
    /\ fileFirstAccess[f] = firstReportAt[f]
    /\ MapGetOr0(armed, f) = 1
    /\ f \in AllFileIds(rooms)

\* C22: a file-downloaded report affects only files of the room its sender
\* is bound to. A report naming a file that is in another room's manifest, or
\* in none, is turned away at the lookup: it changes no download counter,
\* sets no first access time, arms no timer, burns nothing and sends nothing.
\* (In no reachable state can such a report do otherwise.)
C22_ReportStaysInRoom ==
  \A s \in Sessions, f \in KnownIds :
    ( /\ connected[s]
      /\ currentRoom[s] \in DOMAIN rooms
      /\ f \notin FileIds(rooms[currentRoom[s]].files) ) =>
        /\ ~HasFile(rooms, currentRoom[s], f)
        /\ ReportIgnored(s, f)
        /\ FileDownloadedOut(s, f) = <<>>
        /\ ~ENABLED (FileDownloaded(s, f) /\ ~Quiet)

\* a member of one room has reported an access to a file with a burn policy
\* that is listed in another room: the file is still there, its counter at
\* zero, no first access set
C22_Witness ==
  \E f \in foreign :
    /\ policy[f].type # "none"
    /\ f \in AllFileIds(rooms)
    /\ MapGetOr0(reports, f) = 0
    /\ f \in DOMAIN fileDownloads
    /\ fileDownloads[f] = 0
    /\ f \notin DOMAIN fileFirstAccess

\* the files shared to a room that have not since been burned, expired or
\* evicted (nor gone with an earlier room of the same code when it emptied)
SharedAndKept(c) ==
  {f \in DOMAIN sharedIn :
     /\ sharedIn[f] = c
     /\ MapGetOr0(burned, f) = 0
     /\ f \notin swept \cup evicted \cup emptied}

\* C23: the files list of the room-joined a session joining room R gets is
\* R's manifest as it is when the join is handled: in insertion order,
\* exactly the files shared to R that have not since been burned, expired or
\* evicted. (Stated of the answer a join-room would get in each reachable
\* state.)
C23_JoinListsManifest ==
  \A s \in Sessions, c \in DOMAIN rooms :
    connected[s] =>
      LET answer == JoinRoomOut(s, c)[1]
      IN /\ answer.ev = "room-joined"
         /\ answer.to = {s}
         /\ answer.files = rooms[c].files
         /\ Sorted(answer.files)
         /\ FileIds(answer.files) = SharedAndKept(c)
====
